---- MODULE Spec2Model ----
(***************************************************************************)
(* Model of scripts/shortcode_generator.py: the randomized shortcode       *)
(* generator (a family of mutually recursive functions returning           *)
(* (text, parse) pairs) and the run loop of __main__ that feeds every      *)
(* generated shortcode to `tree-sitter parse` and compares the output.     *)
(*                                                                         *)
(* Python strings are TLA+ strings; TLC evaluates Len, \o, SubSeq, Head    *)
(* and Tail on them character by character.  Every call of the random      *)
(* module is a nondeterministic choice (\E) over the values it can return. *)
(* The recursion is an explicit call stack, one frame per active call of   *)
(* generate_shortcode or generate_shortcode_key_value_pair.                *)
(***************************************************************************)
EXTENDS Integers, Sequences, FiniteSets, TLC

\* Bounds of the model.  MaxTokens: the tokens explored in one call
\* generate_shortcode(escaped) taken on its own, counting every name or value
\* a generator returns after the name of the outermost shortcode (a
\* positional leaf is one token, a keyed leaf two, a nested shortcode adds
\* its own name).  RunTokens: the tokens explored per instance inside the
\* run loop.  MaxCycles: the cycles of the run loop explored.
MaxTokens == 3
RunTokens == 2
MaxCycles == 2

VARIABLES
    state,      \* the run loop: "Running" or "Halted" (the process has exited)
    pc,         \* where __main__ is: "loop", "generate", "oracle", "exited"
    escaped,    \* __main__'s variable escaped (line 76)
    stack,      \* call stack of the generator, innermost frame last
    fuel,       \* tokens still explored in this instance
    saturated,  \* arguments appended beyond the explored tokens, modulo 2 (FairSpec only)
    instance,   \* the pair returned to __main__ at line 77, NoValue before
    returned,   \* history: the last return of generate_shortcode
    kv_returned,\* history: the last return of generate_shortcode_key_value_pair
    proc,       \* the parser process of this cycle: returncode, stdout, stderr
    verdict,    \* history: the branch line 79-95 took in this cycle
    stderr,     \* everything written to sys.stderr, one element per write
    exit_status \* the statuses passed to sys.exit: <<>> while the process runs

vars == <<state, pc, escaped, stack, fuel, saturated, instance, returned, kv_returned,
          proc, verdict, stderr, exit_status>>

NoValue == "None"

NoToken == [text |-> NoValue, parse |-> NoValue]

NoReturn == [tok |-> NoToken]

NoProcess == [returncode |-> 0, stdout |-> "", stderr |-> ""]

----------------------------------------------------------------------------
(* Strings *)

RECURSIVE Join(_)
\* "".join(strs)
Join(strs) == IF strs = <<>> THEN "" ELSE Head(strs) \o Join(Tail(strs))

\* " " * n, as "".join([" "] * n) builds it
Spaces(n) == Join([i \in 1..n |-> " "])

Digit(d) == SubSeq("0123456789", d + 1, d + 1)

RECURSIVE NatStr(_)
NatStr(n) == IF n < 10 THEN Digit(n) ELSE NatStr(n \div 10) \o Digit(n % 10)

\* str(n) of a Python int
PyStrInt(n) == IF n < 0 THEN "-" \o NatStr(-n) ELSE NatStr(n)

\* Characters str.strip() and the pattern \s treat as whitespace
Whitespace == {" ", "\t", "\n", "\r", "\f"}

IsSpace(s, i) == SubSeq(s, i, i) \in Whitespace

\* Positions of the whitespace characters of s
WhitespaceAt(s) == {i \in 1..Len(s) : IsSpace(s, i)}

SetMax(S) == CHOOSE x \in S : \A y \in S : x >= y

\* s.strip(): s without its leading and trailing whitespace
PyStrip(s) ==
    IF \A i \in 1..Len(s) : IsSpace(s, i) THEN ""
    ELSE LET first == CHOOSE i \in 1..Len(s) :
                          ~IsSpace(s, i) /\ \A j \in 1..(i - 1) : IsSpace(s, j)
             last == CHOOSE i \in 1..Len(s) :
                          ~IsSpace(s, i) /\ \A j \in (i + 1)..Len(s) : IsSpace(s, j)
         IN SubSeq(s, first, last)

RECURSIVE RemoveAt(_, _)
\* s without the characters at the positions P
RemoveAt(s, P) ==
    IF P = {} THEN s
    ELSE LET m == SetMax(P) IN
         RemoveAt(SubSeq(s, 1, m - 1) \o SubSeq(s, m + 1, Len(s)), P \ {m})

\* re.sub(r'\s+', '', s): every run of whitespace is replaced by nothing
ReSubWhitespace(s) == RemoveAt(s, WhitespaceAt(s))

\* s with w inserted after its first i characters
InsertAt(s, i, w) == SubSeq(s, 1, i) \o w \o SubSeq(s, i + 1, Len(s))

\* Whether needle occurs in hay starting at character i
OccursAt(hay, needle, i) == SubSeq(hay, i, i + Len(needle) - 1) = needle

Occurrences(hay, needle) ==
    {i \in 1..(Len(hay) - Len(needle) + 1) : OccursAt(hay, needle, i)}

Contains(hay, needle) == Occurrences(hay, needle) # {}

StartsWith(s, prefix) == Len(prefix) <= Len(s) /\ OccursAt(s, prefix, 1)

EndsWith(s, suffix) ==
    Len(suffix) <= Len(s) /\ OccursAt(s, suffix, Len(s) - Len(suffix) + 1)

----------------------------------------------------------------------------
(* Lexical fragment generators (lines 8-27) *)

Token(text, parse) == [text |-> text, parse |-> parse]

generate_shortcode_name == Token("call", "(shortcode_name)")

generate_shortcode_naked_string == Token("val[]ue", "(shortcode_naked_string)")

\* random.choice(["true", "false"])
generate_shortcode_boolean ==
    {Token(b, "(shortcode_boolean)") : b \in {"true", "false"}}

\* Sampled results of random.randint(-100, 100) and of
\* str(random.uniform(-100.0, 100.0)).
RandIntSamples == {-100, 7}
UniformStrSamples == {"-12.5"}

\* both branches of random.random() < 0.5
generate_shortcode_number ==
    {Token(PyStrInt(n), "(shortcode_number)") : n \in RandIntSamples}
    \cup {Token(t, "(shortcode_number)") : t \in UniformStrSamples}

\* both branches of random.random() < 0.5
generate_shortcode_string ==
    {Token(q \o generate_shortcode_naked_string.text \o q, "(shortcode_string)")
        : q \in {"\"", "'"}}

\* What generate_shortcode_positional_argument returns when random.choice
\* picks one of the four leaf generators.
LeafArguments ==
    {generate_shortcode_naked_string} \cup generate_shortcode_boolean
    \cup generate_shortcode_number \cup generate_shortcode_string

\* random.randint(0, 2)
SpacerCounts == 0..2

----------------------------------------------------------------------------
(* generate_shortcode and generate_shortcode_key_value_pair as frames *)

OpenDelimiter(esc) == IF esc THEN "{{{< " ELSE "{{< "

CloseDelimiter_AlwaysPlain(esc) == " >}}"

CloseDelimiter(esc) == IF esc THEN " >}}}" ELSE " >}}"

NodeName(esc) == IF esc THEN "shortcode_escaped" ELSE "shortcode"

NestedEscaped_Inherited(outer) == outer

\* The flag a nested call gets: generate_shortcode_positional_argument calls
\* the chosen function with no argument, so escaped takes its default.
NestedEscaped(outer) == FALSE

\* Lines 46-55: the frame of generate_shortcode when it reaches the first loop.
\* args is history: the tokens the two loops received, in order.
ShortcodeEntry(esc) ==
    [fn |-> "generate_shortcode",
     escaped |-> esc,
     node_name |-> NodeName(esc),
     strs |-> <<OpenDelimiter(esc), generate_shortcode_name.text>>,
     parses |-> <<generate_shortcode_name.parse>>,
     loop |-> "positional",
     args |-> <<>>]

\* Lines 57 and 62: strs.append(" ")
AppendSpace(f) == [f EXCEPT !.strs = Append(@, " ")]

\* Lines 59-60 and 64-65: the returned pair is appended to strs and parses
AppendArgument(f, kind, tok) ==
    [f EXCEPT !.strs = Append(@, tok.text),
              !.parses = Append(@, tok.parse),
              !.args = Append(@, [kind |-> kind, tok |-> tok])]

ShortcodeReturn_NameAfterArguments(f) ==
    [text |-> Join(Append(f.strs, CloseDelimiter(f.escaped))),
     parse |-> "(" \o f.node_name \o "(shortcode_delimiter)" \o Join(Tail(f.parses))
                  \o Head(f.parses) \o "(shortcode_delimiter))"]

\* Lines 66-71
ShortcodeReturn(f) ==
    Token(Join(Append(f.strs, CloseDelimiter(f.escaped))),
          "(" \o f.node_name \o "(shortcode_delimiter)" \o Join(f.parses)
              \o "(shortcode_delimiter))")

\* Line 30: the frame of generate_shortcode_key_value_pair while line 31 runs;
\* value holds what line 31 returned, once it has.
KeyValueEntry ==
    [fn |-> "generate_shortcode_key_value_pair",
     key_string |-> generate_shortcode_name.text,
     key_parse |-> generate_shortcode_name.parse,
     value |-> <<>>]

KeyValueReturn_SpacedParse(key_string, key_parse, value, n1, n2) ==
    [text |-> key_string \o Spaces(n1) \o "=" \o Spaces(n2) \o value.text,
     parse |-> "(shortcode_keyword_param" \o key_parse \o Spaces(n2) \o value.parse \o ")"]

\* Lines 32-34
KeyValueReturn(key_string, key_parse, value, n1, n2) ==
    Token(key_string \o Spaces(n1) \o "=" \o Spaces(n2) \o value.text,
          "(shortcode_keyword_param" \o key_parse \o value.parse \o ")")

Top == stack[Len(stack)]

Pop(stk) == SubSeq(stk, 1, Len(stk) - 1)

ReplaceTop(stk, f) == [stk EXCEPT ![Len(stk)] = f]

InLoop(which) ==
    /\ pc = "generate"
    /\ stack # <<>>
    /\ Top.fn = "generate_shortcode"
    /\ Top.loop = which

AfterPositionalLoop_Stays == "positional"

\* The loop the first failed draw of `while random.random() < 0.5` leads to
AfterPositionalLoop == "keyed"

\* A nested generate_shortcode returns tok to the frame below it: to line 58
\* of the calling generate_shortcode (through
\* generate_shortcode_positional_argument, which returns it unchanged), or to
\* line 31 of generate_shortcode_key_value_pair.
Deliver(stk, tok) ==
    LET f == stk[Len(stk)] IN
    IF f.fn = "generate_shortcode"
    THEN ReplaceTop(stk, AppendArgument(f, "positional", tok))
    ELSE ReplaceTop(stk, [f EXCEPT !.value = <<tok>>])

----------------------------------------------------------------------------
(* The generator's steps *)

\* Lines 56-60, random.choice picking a leaf generator
PositionalLeaf(tok) ==
    /\ InLoop("positional")
    /\ fuel >= 1
    /\ stack' = ReplaceTop(stack, AppendArgument(AppendSpace(Top), "positional", tok))
    /\ fuel' = fuel - 1
    /\ UNCHANGED <<state, pc, escaped, saturated, instance, returned, kv_returned, proc,
                   verdict, stderr, exit_status>>

\* Lines 56-58, random.choice picking generate_shortcode
PositionalNested ==
    /\ InLoop("positional")
    /\ fuel >= 1
    /\ stack' = Append(ReplaceTop(stack, AppendSpace(Top)),
                       ShortcodeEntry(NestedEscaped(Top.escaped)))
    /\ fuel' = fuel - 1
    /\ UNCHANGED <<state, pc, escaped, saturated, instance, returned, kv_returned, proc,
                   verdict, stderr, exit_status>>

\* Line 56, the draw that ends the first loop
PositionalStop ==
    /\ InLoop("positional")
    /\ stack' = ReplaceTop(stack, [Top EXCEPT !.loop = AfterPositionalLoop])
    /\ UNCHANGED <<state, pc, escaped, saturated, fuel, instance, returned, kv_returned,
                   proc, verdict, stderr, exit_status>>

\* Lines 61-65 with lines 30-34, random.choice picking a leaf generator
KeyedLeaf(value, n1, n2) ==
    /\ InLoop("keyed")
    /\ fuel >= 2
    /\ LET kv == KeyValueEntry
           tok == KeyValueReturn(kv.key_string, kv.key_parse, value, n1, n2)
       IN /\ stack' = ReplaceTop(stack, AppendArgument(AppendSpace(Top), "keyed", tok))
          /\ kv_returned' = [key |-> generate_shortcode_name, value |-> value,
                             n1 |-> n1, n2 |-> n2, tok |-> tok]
    /\ fuel' = fuel - 2
    /\ UNCHANGED <<state, pc, escaped, saturated, instance, returned, proc, verdict,
                   stderr, exit_status>>

\* Lines 61-63 with lines 30-31, random.choice picking generate_shortcode
KeyedNested ==
    /\ InLoop("keyed")
    /\ fuel >= 2
    /\ stack' = ReplaceTop(stack, AppendSpace(Top))
                \o <<KeyValueEntry, ShortcodeEntry(NestedEscaped(Top.escaped))>>
    /\ fuel' = fuel - 2
    /\ UNCHANGED <<state, pc, escaped, saturated, instance, returned, kv_returned, proc,
                   verdict, stderr, exit_status>>

\* Lines 32-34 after a nested value has returned, then lines 64-65 of the caller
KeyValueFinish(n1, n2) ==
    /\ pc = "generate"
    /\ stack # <<>>
    /\ Top.fn = "generate_shortcode_key_value_pair"
    /\ Top.value # <<>>
    /\ LET tok == KeyValueReturn(Top.key_string, Top.key_parse, Top.value[1], n1, n2)
           rest == Pop(stack)
       IN /\ stack' = ReplaceTop(rest, AppendArgument(rest[Len(rest)], "keyed", tok))
          /\ kv_returned' = [key |-> Token(Top.key_string, Top.key_parse),
                             value |-> Top.value[1],
                             n1 |-> n1, n2 |-> n2, tok |-> tok]
    /\ UNCHANGED <<state, pc, escaped, saturated, fuel, instance, returned, proc, verdict,
                   stderr, exit_status>>

\* Line 61, the draw that ends the second loop, then lines 66-71 and the
\* caller's use of the returned pair
KeyedStop ==
    /\ InLoop("keyed")
    /\ LET tok == ShortcodeReturn(Top)
           rest == Pop(stack)
       IN /\ returned' = [call |-> Top, tok |-> tok, depth |-> Len(stack)]
          /\ IF rest = <<>>
             THEN /\ stack' = <<>>
                  /\ instance' = tok
                  /\ pc' = "oracle"
             ELSE /\ stack' = Deliver(rest, tok)
                  /\ UNCHANGED <<instance, pc>>
    /\ UNCHANGED <<state, escaped, saturated, fuel, kv_returned, proc, verdict, stderr,
                   exit_status>>

----------------------------------------------------------------------------
(* The run loop and the comparison against the parser (lines 73-95) *)

\* Line 79
Scaffold(parse) == "(inline" \o parse \o ")"

Normalize_StripOnly(stdout) == PyStrip(stdout)

\* Lines 82-84
Normalize(stdout) == ReSubWhitespace(PyStrip(stdout))

\* str(e) of the subprocess.CalledProcessError that check=True raises
CalledProcessErrorStr(returncode) ==
    "Command '['tree-sitter', 'parse', '--no-ranges']' returned non-zero exit status "
    \o PyStrInt(returncode) \o "."

\* Line 86, with the newline print adds
MismatchReport(shortcode, output_str, shortcode_parse) ==
    "\nMismatch:\n" \o shortcode \o "\nparse: " \o output_str
    \o "\nexpectation: " \o shortcode_parse \o "\n"

\* Lines 91-93, one element per print
FailureReport(e, shortcode) ==
    <<"Error running tree-sitter: " \o CalledProcessErrorStr(e.returncode) \o "\n",
      shortcode \o "\n",
      "\n" \o "\n">>

Verdict_CompareFirst(p, shortcode_parse) ==
    IF Normalize(p.stdout) = shortcode_parse THEN "Match"
    ELSE IF p.returncode # 0 THEN "ProcessFailure"
    ELSE "Mismatch"

\* The branch lines 80-95 take on a completed parser process: check=True
\* raises CalledProcessError at line 81 on a non-zero exit status, before
\* lines 82-85 look at the output.
Verdict(p, shortcode_parse) ==
    IF p.returncode # 0 THEN "ProcessFailure"
    ELSE IF Normalize(p.stdout) # shortcode_parse THEN "Mismatch"
    ELSE "Match"

\* What lines 86, 88 and 91-93 write to sys.stderr
Report(v, p, shortcode, shortcode_parse) ==
    IF v = "ProcessFailure" THEN FailureReport(p, shortcode)
    ELSE IF v = "Mismatch"
    THEN <<MismatchReport(shortcode, Normalize(p.stdout), shortcode_parse)>>
    ELSE <<".">>

Halts_OnlyOnProcessFailure(v) == v = "ProcessFailure"

\* Lines 87 and 95: the branches that end in sys.exit(1)
Halts(v) == v # "Match"

\* What the exit statuses, the standard outputs and the standard errors of the
\* parser are drawn from.  Outputs: the tree expected, the same tree laid out
\* with whitespace (around it, between its nodes, inside a node name, in
\* runs), other trees, nothing.
ExitCodes == {0, 1}

InsertPositions(e) == {4, 7, Len(e) \div 2}

Layouts(e) ==
    {e, " " \o e \o "\n"}
    \cup {InsertAt(e, i, "\n  ") : i \in InsertPositions(e)}
    \cup {InsertAt(InsertAt(e, Len(e) - 2, "\t\r\f"), 7, " ")}

OtherTrees(e) == {"", "(inline(ERROR))"}

StderrSamples == {"", "Query error at 1:1"}

ParserRuns(e) ==
    {[returncode |-> 0, stdout |-> out, stderr |-> ""]
        : out \in Layouts(e) \cup OtherTrees(e)}
    \cup {[returncode |-> rc, stdout |-> out, stderr |-> err]
            : rc \in ExitCodes \ {0}, out \in {e, ""}, err \in StderrSamples}

\* Lines 75-77 up to the call: a new cycle draws escaped and enters
\* generate_shortcode.  What the previous cycle left in shortcode,
\* shortcode_parse and output is dead from here on and is dropped.
StartCycle(esc) ==
    /\ state = "Running"
    /\ pc = "loop"
    /\ Len(stderr) < MaxCycles
    /\ escaped' = esc
    /\ stack' = <<ShortcodeEntry(esc)>>
    /\ fuel' = RunTokens
    /\ pc' = "generate"
    /\ instance' = NoToken
    /\ returned' = NoReturn
    /\ kv_returned' = NoReturn
    /\ proc' = NoProcess
    /\ verdict' = NoValue
    /\ UNCHANGED <<state, saturated, stderr, exit_status>>

\* Lines 79-95 on the parser process p
Oracle(p) ==
    /\ state = "Running"
    /\ pc = "oracle"
    /\ \E shortcode \in {instance.text},
          shortcode_parse \in {Scaffold(instance.parse)} :
       \E v \in {Verdict(p, shortcode_parse)} :
          /\ proc' = p
          /\ verdict' = v
          /\ stderr' = stderr \o Report(v, p, shortcode, shortcode_parse)
          /\ IF Halts(v)
             THEN /\ state' = "Halted"
                  /\ pc' = "exited"
                  /\ exit_status' = <<1>>
             ELSE /\ pc' = "loop"
                  /\ UNCHANGED <<state, exit_status>>
    /\ UNCHANGED <<escaped, stack, fuel, saturated, instance, returned, kv_returned>>

\* Lines 79-95 on whatever the parser does with the instance
RunParser ==
    /\ pc = "oracle"
    /\ \E p \in ParserRuns(Scaffold(instance.parse)) : Oracle(p)

Generate ==
    \/ \E tok \in LeafArguments : PositionalLeaf(tok)
    \/ PositionalNested
    \/ PositionalStop
    \/ \E tok \in LeafArguments, n1 \in SpacerCounts, n2 \in SpacerCounts :
           KeyedLeaf(tok, n1, n2)
    \/ KeyedNested
    \/ \E n1 \in SpacerCounts, n2 \in SpacerCounts : KeyValueFinish(n1, n2)
    \/ KeyedStop

\* One call generate_shortcode(escaped), for either value of the flag
GenInitWith(f) ==
    /\ state = "Running"
    /\ pc = "generate"
    /\ escaped \in BOOLEAN
    /\ stack = <<ShortcodeEntry(escaped)>>
    /\ fuel = f
    /\ saturated = 0
    /\ instance = NoToken
    /\ returned = NoReturn
    /\ kv_returned = NoReturn
    /\ proc = NoProcess
    /\ verdict = NoValue
    /\ stderr = <<>>
    /\ exit_status = <<>>

GenInit == GenInitWith(MaxTokens)

GenSpec == GenInit /\ [][Generate]_vars

----------------------------------------------------------------------------
(* The generator with loops that may run on without end *)

\* Lines 56-60 and 61-65 once the explored tokens are used up: the draw
\* succeeds again and random.choice picks a leaf generator; the argument is
\* appended but no longer recorded, only counted modulo 2.
PositionalOverflow ==
    /\ InLoop("positional")
    /\ fuel < 1
    /\ saturated' = 1 - saturated
    /\ UNCHANGED <<state, pc, escaped, stack, fuel, instance, returned,
                   kv_returned, proc, verdict, stderr, exit_status>>

KeyedOverflow ==
    /\ InLoop("keyed")
    /\ fuel < 2
    /\ saturated' = 1 - saturated
    /\ UNCHANGED <<state, pc, escaped, stack, fuel, instance, returned,
                   kv_returned, proc, verdict, stderr, exit_status>>

FairGenerate ==
    \/ Generate
    \/ PositionalOverflow
    \/ KeyedOverflow

\* The deepest stack RunTokens allows: every frame above the outermost one
\* holds a name, which is a token.
StackBound == 1 + RunTokens

\* The failed continuation draw of either loop, in the call at depth d
StopAt(d) == Len(stack) = d /\ (PositionalStop \/ KeyedStop)

\* The interpreter keeps running the call, and in no call do the
\* continuation draws of a loop succeed every time they are made.
Fairness ==
    /\ WF_vars(FairGenerate)
    /\ \A d \in 1..StackBound : SF_vars(StopAt(d))

FairInit == GenInitWith(RunTokens)

FairSpec == FairInit /\ [][FairGenerate]_vars /\ Fairness

Init ==
    /\ state = "Running"
    /\ pc = "loop"
    /\ escaped = NoValue
    /\ stack = <<>>
    /\ fuel = RunTokens
    /\ saturated = 0
    /\ instance = NoToken
    /\ returned = NoReturn
    /\ kv_returned = NoReturn
    /\ proc = NoProcess
    /\ verdict = NoValue
    /\ stderr = <<>>
    /\ exit_status = <<>>

Next ==
    \/ \E esc \in BOOLEAN : StartCycle(esc)
    \/ Generate
    \/ RunParser

Spec == Init /\ [][Next]_vars

----------------------------------------------------------------------------
(* Properties of generate_shortcode, checked under GenSpec *)

OfKind(args, kind) == SelectSeq(args, LAMBDA a : a.kind = kind)

\* The encodings of args, concatenated in order
ParsesOf(args) == Join([i \in 1..Len(args) |-> args[i].tok.parse])

\* ' ' + text for each of args, concatenated in order
SpacedTextsOf(args) == Join([i \in 1..Len(args) |-> " " \o args[i].tok.text])

\* C1: every pair returned by generate_shortcode has as encoding '(' + top tag
\* + '(shortcode_delimiter)' + '(shortcode_name)' + the encodings of its
\* positional arguments in emission order + those of its keyed arguments in
\* emission order + '(shortcode_delimiter)' + ')', and as text the opening
\* delimiter + name + ' ' + text for each of those arguments in the same
\* order + the closing delimiter; the name tag is the first component after
\* the opening delimiter tag and occurs once among the components; with no
\* argument the encoding is the top tag, two delimiter tags and one name tag.
C1_EncodingShape ==
    returned.tok # NoToken =>
        LET f == returned.call
            positional == OfKind(f.args, "positional")
            keyed == OfKind(f.args, "keyed")
            top == IF f.escaped THEN "shortcode_escaped" ELSE "shortcode"
        IN /\ f.args = positional \o keyed
           /\ returned.tok.parse =
                  "(" \o top \o "(shortcode_delimiter)" \o "(shortcode_name)"
                  \o ParsesOf(positional) \o ParsesOf(keyed)
                  \o "(shortcode_delimiter)" \o ")"
           /\ returned.tok.text =
                  OpenDelimiter(f.escaped) \o "call" \o SpacedTextsOf(positional \o keyed)
                  \o CloseDelimiter(f.escaped)
           /\ f.parses = <<"(shortcode_name)">> \o [i \in 1..Len(f.args) |-> f.args[i].tok.parse]
           /\ {i \in 1..Len(f.parses) : f.parses[i] = "(shortcode_name)"} = {1}
           /\ f.args = <<>> =>
                  returned.tok.parse =
                      "(" \o top \o "(shortcode_delimiter)(shortcode_name)(shortcode_delimiter))"

\* A call has returned an instance with a positional argument followed by a
\* keyed one.
C1_Witness ==
    /\ returned.tok # NoToken
    /\ Len(returned.call.args) = 2
    /\ returned.call.args[1].kind = "positional"
    /\ returned.call.args[2].kind = "keyed"

\* C2: every instance returned by generate_shortcode(escaped) has its
\* delimiters paired: escaped gives a text from '{{{< ' to ' >}}}' under the
\* top tag shortcode_escaped, not escaped a text from '{{< ' to ' >}}' under
\* the top tag shortcode, and no text has the triple-brace form on one side
\* only; the outermost call has the flag the caller drew.
C2_DelimitersPaired ==
    returned.tok # NoToken =>
        LET t == returned.tok.text
            e == returned.tok.parse
            flag == returned.call.escaped
        IN /\ returned.depth = 1 => flag = escaped
           /\ flag => /\ StartsWith(t, "{{{< ")
                      /\ EndsWith(t, " >}}}")
                      /\ StartsWith(e, "(shortcode_escaped(")
           /\ ~flag => /\ StartsWith(t, "{{< ")
                       /\ EndsWith(t, " >}}")
                       /\ StartsWith(e, "(shortcode(")
           /\ StartsWith(t, "{{{< ") <=> EndsWith(t, " >}}}")

\* The outermost call, made with escaped = True, has returned an instance
\* with an argument.
C2_Witness ==
    /\ pc = "oracle"
    /\ escaped = TRUE
    /\ returned.depth = 1
    /\ returned.call.args # <<>>

\* n spaces, written out
Pad(n) == CASE n = 0 -> "" [] n = 1 -> " " [] n = 2 -> "  "

\* C9: every token returned by generate_shortcode_key_value_pair has as text
\* the name, 0 to 2 spaces, '=', 0 to 2 spaces and the text of one argument
\* token, and as encoding '(shortcode_keyword_param' + '(shortcode_name)' +
\* the encoding of that value + ')', whatever the two space counts are.
C9_KeyValueShape ==
    kv_returned.tok # NoToken =>
        LET k == kv_returned IN
        /\ k.n1 \in 0..2
        /\ k.n2 \in 0..2
        /\ k.key = Token("call", "(shortcode_name)")
        /\ \/ k.value \in LeafArguments
           \/ StartsWith(k.value.parse, "(shortcode(shortcode_delimiter)")
        /\ k.tok.text = "call" \o Pad(k.n1) \o "=" \o Pad(k.n2) \o k.value.text
        /\ k.tok.parse =
               "(shortcode_keyword_param" \o "(shortcode_name)" \o k.value.parse \o ")"

\* A keyed argument whose value is a nested shortcode has been returned with
\* two spaces before '=' and none after it.
C9_Witness ==
    /\ kv_returned.tok # NoToken
    /\ kv_returned.n1 = 2
    /\ kv_returned.n2 = 0
    /\ StartsWith(kv_returned.value.text, "{{< ")

\* C10: a nested shortcode is always the plain variant: every call below the
\* outermost one runs with escaped = False, and in every generated instance
\* the tag shortcode_escaped occurs at most as the top node of the encoding
\* and '{{{< ' and ' >}}}' at most as the outermost delimiters of the text.
C10_NestedIsPlain ==
    /\ \A d \in 2..Len(stack) :
          stack[d].fn = "generate_shortcode" => ~stack[d].escaped
    /\ returned.tok # NoToken /\ returned.depth > 1 => ~returned.call.escaped
    /\ pc = "oracle" =>
          /\ Occurrences(instance.parse, "shortcode_escaped") \subseteq {2}
          /\ Occurrences(instance.text, "{{{< ") \subseteq {1}
          /\ Occurrences(instance.text, " >}}}") \subseteq {Len(instance.text) - 4}

\* An escaped instance with a nested shortcode as the value of a keyed
\* argument has been generated.
C10_Witness ==
    /\ pc = "oracle"
    /\ escaped = TRUE
    /\ kv_returned.tok # NoToken
    /\ StartsWith(kv_returned.value.text, "{{< ")
    /\ Contains(instance.text, kv_returned.tok.text)

----------------------------------------------------------------------------
(* Properties of the run loop, checked under Spec *)

\* C3: the verdict of a cycle is decided by the exit status of the parser
\* first and by its output second: a non-zero status gives ProcessFailure
\* whatever the output is; status zero gives Mismatch when the normalized
\* output differs from '(inline' + encoding + ')' and Match otherwise.
C3_ExitStatusFirst ==
    verdict # NoValue =>
        LET expected == "(inline" \o instance.parse \o ")"
            output_str == ReSubWhitespace(PyStrip(proc.stdout))
        IN /\ proc.returncode # 0 => verdict = "ProcessFailure"
           /\ proc.returncode = 0 /\ output_str # expected => verdict = "Mismatch"
           /\ proc.returncode = 0 /\ output_str = expected => verdict = "Match"

\* The parser printed exactly the expected tree and exited with a non-zero
\* status: the cycle ended in ProcessFailure.
C3_Witness ==
    /\ verdict = "ProcessFailure"
    /\ proc.returncode # 0
    /\ proc.stdout = "(inline" \o instance.parse \o ")"

\* C4: the comparison is whitespace-insensitive: the expected encoding of
\* every generated instance holds no whitespace, and an output of a parser
\* that exited with status zero and that differs from it by whitespace only
\* gives Match.
C4_WhitespaceInsensitive ==
    instance # NoToken =>
        LET expected == "(inline" \o instance.parse \o ")" IN
        /\ WhitespaceAt(expected) = {}
        /\ ( /\ verdict # NoValue
             /\ proc.returncode = 0
             /\ RemoveAt(proc.stdout, WhitespaceAt(proc.stdout)) = expected )
           => verdict = "Match"

\* A cycle ended in Match on an output with whitespace inside the tree.
C4_Witness ==
    /\ verdict = "Match"
    /\ WhitespaceAt(PyStrip(proc.stdout)) # {}
    /\ instance.parse # "(shortcode(shortcode_delimiter)(shortcode_name)(shortcode_delimiter))"

\* The steps of the run loop: it halts exactly at the first verdict that is
\* not Match.  A Match leaves it Running at the top of the loop with one
\* progress signal written, and the next step starts another cycle; a
\* Mismatch or a ProcessFailure halts it with a non-zero exit status; once
\* Halted nothing changes any more; and it halts on no other step.
C5_Step ==
    /\ state = "Halted" => UNCHANGED vars
    /\ verdict = NoValue /\ verdict' = "Match" =>
          /\ state' = "Running"
          /\ pc' = "loop"
          /\ stderr' = Append(stderr, ".")
          /\ exit_status' = <<>>
    /\ verdict = NoValue /\ verdict' \in {"Mismatch", "ProcessFailure"} =>
          /\ state' = "Halted"
          /\ exit_status' # <<>>
          /\ exit_status'[1] # 0
    /\ state = "Running" /\ state' = "Halted" =>
          verdict = NoValue /\ verdict' \in {"Mismatch", "ProcessFailure"}
    /\ verdict = "Match" /\ verdict' = NoValue => pc' = "generate" /\ stack' # <<>>

\* C5, as a property of behaviours: the loop starts Running, is always
\* Running or Halted, has exited exactly when Halted, and every step is one
\* C5_Step allows.
C5_RunLoop ==
    /\ state = "Running"
    /\ [](state \in {"Running", "Halted"})
    /\ [](state = "Halted" <=> exit_status # <<>>)
    /\ [][C5_Step]_vars

\* A second cycle has ended in a failure after a first one ended in Match.
C5_Witness ==
    /\ state = "Halted"
    /\ Len(stderr) >= 2
    /\ stderr[1] = "."

\* C6: whenever the run loop has halted, sys.stderr holds the literal input
\* text, and on Mismatch the actual and the expected encoding, on
\* ProcessFailure the captured standard error of the parser.
C6_DiagnosticsWritten ==
    state = "Halted" =>
        LET written == Join(stderr) IN
        /\ Contains(written, instance.text)
        /\ verdict = "Mismatch" =>
              /\ Contains(written, Normalize(proc.stdout))
              /\ Contains(written, Scaffold(instance.parse))
        /\ verdict = "ProcessFailure" => Contains(written, proc.stderr)

\* C8: a run given a seed is reproducible.  The program reads no input (no
\* argument, no environment variable, no call of random.seed), so a run
\* given a seed is any run: reproducibility requires that at the top of the
\* loop only one value of the escaped flag can be drawn.
C8_RunReproducible ==
    ~(ENABLED StartCycle(TRUE) /\ ENABLED StartCycle(FALSE))

----------------------------------------------------------------------------
(* Termination of the generator *)

\* C7: under FairSpec every call of generate_shortcode (and of
\* generate_shortcode_key_value_pair) eventually returns: whenever the stack
\* holds a frame at depth d, it later holds none.
C7_EveryCallReturns ==
    \A d \in 1..StackBound : (Len(stack) >= d) ~> (Len(stack) < d)

\* A call at the deepest nesting explored has returned, after a loop ran on
\* beyond the explored arguments.
C7_Witness ==
    /\ returned.tok # NoToken
    /\ returned.depth = StackBound
    /\ saturated = 1

====
